---- MODULE Spec2Model ----
(***************************************************************************)
(* A model of the FiniteStateMachine class of @irrelon/fsm                 *)
(* (src/unnamed/part_000, the compiled FiniteStateMachine.js).             *)
(*                                                                         *)
(* Every async function runs synchronously up to its first await on a      *)
(* promise that is still pending; one action of the model is one such      *)
(* synchronous run.  The host may call the machine between any two runs.   *)
(* Guards and enter/exit callbacks are host code: the value each resolves  *)
(* with is chosen when it resolves.                                        *)
(***************************************************************************)
EXTENDS Integers, Sequences, FiniteSets, TLC

VARIABLES
    states,             \* this._states: name -> definition
    transitions,        \* this._transitions: the (from, to) pairs with a check function
    initialStateName,   \* this._initialStateName
    currentStateName,   \* this._currentStateName
    previousStates,     \* this._previousStates: sequence of {name, args}
    transitionQueue,    \* this._transitionQueue: ids of the queued closures
    transitioning,      \* this._transitioning
    calls,              \* every initialState/enterState/exitState/raiseEvent call made so far, in call order
    host,               \* the host program that owns the machine
    returned,           \* the host's last call of the machine and what it returned
    performed,          \* transitions made since currentStateName last became the initial state
    enteredWith         \* the arguments the current state was entered with

vars == <<states, transitions, initialStateName, currentStateName,
          previousStates, transitionQueue, transitioning, calls, host,
          returned, performed, enteredWith>>

(***************************************************************************)
(* Bounds of the model.                                                    *)
(***************************************************************************)
\* calls the host makes after construction
MaxCalls == 3
Names == {"s1", "s2", "s3"}
\* the event names hosts raise
Events == {"ev", "tap"}
\* the value of _initialStateName and _currentStateName after construction
NoName == ""

(***************************************************************************)
(* Values.                                                                 *)
(***************************************************************************)
Undefined == "undefined"
GuardError == "Error: guard"
ExitError == "Error: exit"
UndefinedStateError == "Error: Cannot change states ... because at least one is not defined."
NoHistoryError == "Error: No previous state to transition to"
NotFoundError == "Error: Cannot set initial state ... because it does not exist!"
EnterValue == "enter result"
TypeError == "TypeError: Cannot read properties of undefined"
BeforeValue == "beforeAll result"
HandlerValue == "handler result"
AfterValue == "afterAll result"
\* a callback that was invoked and has not resolved yet
Pending == "pending"

\* the test that lets only a guard's error through
OnlyGuardError(v) == v = GuardError

\* the test that lets no error through
NeverError(v) == FALSE

\* result instanceof Error
IsError(v) == v \in {GuardError, ExitError, UndefinedStateError, NoHistoryError, NotFoundError}

\* what a check function, an exit callback, an enter callback may resolve with
GuardResults == {Undefined, GuardError}
ExitResults == {Undefined, ExitError}
EnterResults == {Undefined, EnterValue}
\* what the beforeAll handler, a state's handler, the afterAll handler may resolve with
BeforeResults == {BeforeValue}
HandlerResults == {Undefined, HandlerValue}
AfterResults == {AfterValue}

(***************************************************************************)
(* State definitions: which of the enter and exit callbacks are present,   *)
(* and the event names the definition has a handler for.                   *)
(***************************************************************************)
NoDef == [defined |-> FALSE, enter |-> FALSE, exit |-> FALSE, handles |-> {}]
Plain == [defined |-> TRUE, enter |-> FALSE, exit |-> FALSE, handles |-> {}]
EnterAndExit == [defined |-> TRUE, enter |-> TRUE, exit |-> TRUE, handles |-> {}]
ExitOnly == [defined |-> TRUE, enter |-> FALSE, exit |-> TRUE, handles |-> {}]
EnterOnly == [defined |-> TRUE, enter |-> TRUE, exit |-> FALSE, handles |-> {}]
\* a definition with event handlers only
Handlers(eventNames) == [Plain EXCEPT !.handles = eventNames]

\* this.getState(stateName)
getState(sts, stateName) ==
    IF stateName \in DOMAIN sts THEN sts[stateName] ELSE NoDef

\* defineState without its test: the last name defined is the initial one
defineStateLastWins(reg, name, definition) ==
    [states |-> [n \in DOMAIN reg.states \cup {name} |->
                    IF n = name THEN definition ELSE reg.states[n]],
     initialStateName |-> name]

\* this.defineState(name, definition) on the pair (registry, initial name)
defineState(reg, name, definition) ==
    [states |-> [n \in DOMAIN reg.states \cup {name} |->
                    IF n = name THEN definition ELSE reg.states[n]],
     initialStateName |-> IF reg.initialStateName = NoName THEN name
                          ELSE reg.initialStateName]

\* Object.entries(initialData.states).forEach(defineState)
RECURSIVE defineStates(_, _)
defineStates(reg, entries) ==
    IF entries = <<>> THEN reg
    ELSE defineStates(defineState(reg, Head(entries)[1], Head(entries)[2]), Tail(entries))

\* a lookup that also finds the guard registered for the reverse pair
HasGuardEitherWay(trs, from, to) == <<from, to>> \in trs \/ <<to, from>> \in trs

\* this._transitions[from] && this._transitions[from][to]
HasGuard(trs, from, to) == <<from, to>> \in trs

(***************************************************************************)
(* The records of the model.                                               *)
(*                                                                         *)
(* A call record is one initialState/enterState/exitState call: the        *)
(* closure it pushed on the queue (target, direction, args, pc, result),   *)
(* the promise it returned (promise, value), the closure its               *)
(* _processTransition awaits (awaiting), and what the checks need to       *)
(* remember about it (by, quiet, cur0, hist0, guarded0, registered0,       *)
(* outcome, invoked).                                                      *)
(***************************************************************************)
AllSettled(cs) == \A i \in DOMAIN cs : cs[i].promise # "pending"

NewCall(cs, sts, trs, cur, hist, kind, by, target, direction, args) ==
    [kind |-> kind, by |-> by, target |-> target, direction |-> direction, args |-> args,
     pc |-> "queued", result |-> Undefined, newStateObj |-> NoDef,
     promise |-> "pending", value |-> Undefined, awaiting |-> 0,
     quiet |-> AllSettled(cs),
     cur0 |-> cur, hist0 |-> hist,
     guarded0 |-> HasGuard(trs, cur, target),
     registered0 |-> getState(sts, cur).defined /\ getState(sts, target).defined,
     outcome |-> "none", invoked |-> <<>>]

\* A call whose promise has settled and whose closure has returned holds no
\* state of the program any more: its record is dropped when the host makes
\* its next call.
Retired(by) ==
    [kind |-> "retired", by |-> by, target |-> NoName, direction |-> "none", args |-> <<>>,
     pc |-> "returned", result |-> Undefined, newStateObj |-> NoDef,
     promise |-> "resolved", value |-> Undefined, awaiting |-> 0,
     quiet |-> FALSE, cur0 |-> NoName, hist0 |-> <<>>,
     guarded0 |-> FALSE, registered0 |-> FALSE,
     outcome |-> "none", invoked |-> <<>>]

Zero == [forward |-> 0, backward |-> 0]

\* the host called op(args) and got value: defineState and defineTransition
\* return the machine ("this") or false, the other operations a promise
Returned(op, args, value) == [op |-> op, args |-> args, value |-> value]

Retire(cs) ==
    [i \in DOMAIN cs |->
        IF cs[i].promise # "pending" /\ cs[i].pc \in {"returned", "none"}
        THEN Retired(cs[i].by) ELSE cs[i]]

\* cb(...args) of stateName is called and awaited
Invoke(req, cb, stateName) ==
    [req EXCEPT !.pc = cb,
                !.invoked = Append(@, [cb |-> cb, state |-> stateName, args |-> req.args,
                                       value |-> Pending])]

\* the callback req awaits resolves with value
Resolve(req, value) ==
    [req EXCEPT !.invoked[Len(req.invoked)].value = value]

Return(req, result, outcome) ==
    [req EXCEPT !.pc = "returned", !.result = result, !.outcome = outcome]

(***************************************************************************)
(* _transitionStates and its goToNextState.                                *)
(***************************************************************************)
\* the entry is pushed whatever the direction
PushAlways(hist, direction, entry) == Append(hist, entry)

\* the direction test inverted: the entry is pushed on the way back
PushWhenBackward(hist, direction, entry) ==
    IF direction = "backward" THEN Append(hist, entry) ELSE hist

\* if (direction === "forward") this._previousStates.push(...)
HistoryPush(hist, direction, entry) ==
    IF direction = "forward" THEN Append(hist, entry) ELSE hist

\* the history is kept when the initial state is entered
NeverClear(hist, newStateName, initialName) == hist

\* if (newStateName === this._initialStateName) this._previousStates = []
ClearIfInitial(hist, newStateName, initialName) ==
    IF newStateName = initialName THEN <<>> ELSE hist

\* goToNextState calling enter before it records the change of state
goToNextStateEnterFirst(cur, hist, req) ==
    LET pushed == HistoryPush(hist, req.direction, [name |-> cur, args |-> req.args])
        entered == [req EXCEPT !.outcome = "entered"]
    IN  IF req.newStateObj.enter
        THEN [cur |-> cur, hist |-> hist, req |-> Invoke(entered, "enter", req.target)]
        ELSE [cur |-> req.target,
              hist |-> ClearIfInitial(pushed, req.target, initialStateName),
              req |-> Return(entered, Undefined, "entered")]

\* goToNextState, up to its first await
goToNextState(cur, hist, req) ==
    LET pushed == HistoryPush(hist, req.direction, [name |-> cur, args |-> req.args])
        entered == [req EXCEPT !.outcome = "entered"]
    IN  [cur |-> req.target,
         hist |-> ClearIfInitial(pushed, req.target, initialStateName),
         req |-> IF req.newStateObj.enter
                 THEN Invoke(entered, "enter", req.target)
                 ELSE Return(entered, Undefined, "entered")]

\* the test that forgets the current state
NewNotDefined(currentStateObj, newStateObj) == ~newStateObj.defined

\* if (!currentStateObj || !newStateObj)
NotDefined(currentStateObj, newStateObj) ==
    ~currentStateObj.defined \/ ~newStateObj.defined

transitionStates(cur, hist, req) ==
    LET currentStateObj == getState(states, cur)
        newStateObj == getState(states, req.target)
        r == [req EXCEPT !.newStateObj = newStateObj]
    IN  IF NotDefined(currentStateObj, newStateObj)
        THEN [cur |-> cur, hist |-> hist,
              req |-> Return(req, UndefinedStateError, "undefinedState")]
        ELSE IF currentStateObj.exit
        THEN [cur |-> cur, hist |-> hist, req |-> Invoke(r, "exit", cur)]
        ELSE goToNextState(cur, hist, r)

(***************************************************************************)
(* The closure enterState and exitState push on the queue, up to its       *)
(* first await.                                                            *)
(***************************************************************************)
\* the closure without its "already in that state" test
NeverAlreadyInState(newStateName, cur) == FALSE

\* if (newStateName === this._currentStateName)
AlreadyInState(newStateName, cur) == newStateName = cur

func(cur, hist, req) ==
    IF AlreadyInState(req.target, cur)
    THEN [cur |-> cur, hist |-> hist, req |-> Return(req, Undefined, "noop")]
    ELSE IF ~HasGuard(transitions, cur, req.target)
    THEN transitionStates(cur, hist, req)
    ELSE [cur |-> cur, hist |-> hist, req |-> Invoke(req, "guard", cur)]

(***************************************************************************)
(* _processTransition, called by call id, up to its first await.           *)
(***************************************************************************)
\* _processTransition leaving the queue alone while a closure is running
processTransitionWhenIdle(cs, queue, cur, hist, id) ==
    IF \E j \in DOMAIN cs : cs[j].kind \in {"enter", "exit"}
                              /\ cs[j].pc \in {"guard", "exit", "enter"}
    THEN [calls |-> cs, queue |-> queue, cur |-> cur, hist |-> hist, transitioning |-> TRUE]
    ELSE IF Len(queue) = 0
    THEN [calls |-> [cs EXCEPT ![id].promise = "resolved", ![id].value = Undefined,
                               ![id].awaiting = 0],
          queue |-> queue, cur |-> cur, hist |-> hist, transitioning |-> FALSE]
    ELSE LET f == Head(queue)
             run == func(cur, hist, cs[f])
         IN  [calls |-> [[cs EXCEPT ![f] = run.req] EXCEPT ![id].awaiting = f],
              queue |-> Tail(queue), cur |-> run.cur, hist |-> run.hist,
              transitioning |-> TRUE]

processTransition(cs, queue, cur, hist, id) ==
    IF Len(queue) = 0
    THEN [calls |-> [cs EXCEPT ![id].promise = "resolved", ![id].value = Undefined,
                               ![id].awaiting = 0],
          queue |-> queue, cur |-> cur, hist |-> hist, transitioning |-> FALSE]
    ELSE LET f == Head(queue)
             run == func(cur, hist, cs[f])
         IN  [calls |-> [[cs EXCEPT ![f] = run.req] EXCEPT ![id].awaiting = f],
              queue |-> Tail(queue), cur |-> run.cur, hist |-> run.hist,
              transitioning |-> TRUE]

\* func() called without yield: the drain goes on at once
FuncNotAwaited(req) == TRUE

\* a drain that is never resumed after the closure returned
FuncNeverResolved(req) == FALSE

\* yield func(): the closure the drain awaits has returned
FuncResolved(req) == req.pc = "returned"

(***************************************************************************)
(* initialState, up to its first await.                                    *)
(***************************************************************************)
\* initialState without its test
AlwaysFound(newStateObj) == FALSE

\* if (!newStateObj)
StateNotFound(newStateObj) == ~newStateObj.defined

\* initialState without "this._previousStates = []"
initialStateKeepsHistory(cs, sts, initialName, cur, hist, stateName, rest, by) ==
    LET newStateObj == getState(sts, stateName)
        call == NewCall(cs, sts, {}, cur, hist, "initial", by, stateName, "none", rest)
    IN  IF StateNotFound(newStateObj)
        THEN [initialStateName |-> initialName, cur |-> cur, hist |-> hist,
              calls |-> Append(cs, [call EXCEPT !.pc = "none", !.promise = "rejected",
                                                !.value = NotFoundError,
                                                !.outcome = "rejected"])]
        ELSE [initialStateName |-> stateName, cur |-> stateName, hist |-> hist,
              calls |-> Append(cs,
                  IF newStateObj.enter
                  THEN Invoke([call EXCEPT !.outcome = "entered"], "enter", stateName)
                  ELSE [Return(call, Undefined, "entered") EXCEPT !.promise = "resolved"])]

\* initialState leaving the current state through its exit callback
initialStateThroughExit(cs, sts, initialName, cur, hist, stateName, rest, by) ==
    LET newStateObj == getState(sts, stateName)
        call == NewCall(cs, sts, {}, cur, hist, "initial", by, stateName, "none", rest)
    IN  IF StateNotFound(newStateObj)
        THEN [initialStateName |-> initialName, cur |-> cur, hist |-> hist,
              calls |-> Append(cs, [call EXCEPT !.pc = "none", !.promise = "rejected",
                                                !.value = NotFoundError,
                                                !.outcome = "rejected"])]
        ELSE IF getState(sts, cur).exit
        THEN [initialStateName |-> initialName, cur |-> cur, hist |-> hist,
              calls |-> Append(cs, Invoke(call, "exit", cur))]
        ELSE [initialStateName |-> stateName, cur |-> stateName, hist |-> <<>>,
              calls |-> Append(cs,
                  IF newStateObj.enter
                  THEN Invoke([call EXCEPT !.outcome = "entered"], "enter", stateName)
                  ELSE [Return(call, Undefined, "entered") EXCEPT !.promise = "resolved"])]

\* initialState, up to its first await
initialState(cs, sts, initialName, cur, hist, stateName, rest, by) ==
    LET newStateObj == getState(sts, stateName)
        call == NewCall(cs, sts, {}, cur, hist, "initial", by, stateName, "none", rest)
    IN  IF StateNotFound(newStateObj)
        THEN [initialStateName |-> initialName, cur |-> cur, hist |-> hist,
              calls |-> Append(cs, [call EXCEPT !.pc = "none", !.promise = "rejected",
                                                !.value = NotFoundError,
                                                !.outcome = "rejected"])]
        ELSE [initialStateName |-> stateName, cur |-> stateName, hist |-> <<>>,
              calls |-> Append(cs,
                  IF newStateObj.enter
                  THEN Invoke([call EXCEPT !.outcome = "entered"], "enter", stateName)
                  ELSE [Return(call, Undefined, "entered") EXCEPT !.promise = "resolved"])]

(***************************************************************************)
(* The host programs of the model.  A host constructs the machine with     *)
(* initialData (states in key order, initialState or NoName for none),     *)
(* may call defineTransition for the pairs in guards before its first      *)
(* call, may call defineState with the entries in defines and raiseEvent   *)
(* with the names in events at any time, passes the argument lists in      *)
(* args, and keeps at most flows calls pending at a time (1: it awaits     *)
(* every call before it makes the next).                                   *)
(***************************************************************************)
Hosts ==
    { [states |-> << <<"s1", Plain>>, <<"s2", EnterAndExit>>, <<"s3", EnterAndExit>> >>,
       initialState |-> "s1", guards |-> {<<"s1", "s2">>}, defines |-> {}, events |-> {},
       args |-> {<<>>}, flows |-> 3],
      [states |-> << <<"s1", Plain>>, <<"s2", Plain>>, <<"s3", Plain>> >>,
       initialState |-> "s1", guards |-> {<<"s1", "s2">>, <<"s2", "s1">>},
       defines |-> {}, events |-> {},
       args |-> {<<>>, <<"a">>}, flows |-> 1],
      [states |-> << <<"s1", Plain>>, <<"s2", EnterAndExit>>, <<"s3", ExitOnly>> >>,
       initialState |-> "s1", guards |-> {<<"s3", "s2">>, <<"s2", "s3">>},
       defines |-> {}, events |-> {},
       args |-> {<<>>, <<"a">>}, flows |-> 1],
      [states |-> << <<"s1", ExitOnly>>, <<"s2", EnterOnly>> >>,
       initialState |-> NoName, guards |-> {}, defines |-> {}, events |-> {},
       args |-> {<<>>, <<"a">>}, flows |-> 1],
      [states |-> << <<"s1", ExitOnly>>, <<"s2", EnterOnly>> >>,
       initialState |-> "s3", guards |-> {<<"s2", "s1">>}, defines |-> {}, events |-> {},
       args |-> {<<>>}, flows |-> 1],
      \* initialState names a state that is not the first key of states
      [states |-> << <<"s1", Plain>>, <<"s2", EnterOnly>> >>,
       initialState |-> "s2", guards |-> {}, defines |-> {}, events |-> {},
       args |-> {<<>>}, flows |-> 1],
      \* new FiniteStateMachine(): every state is defined by the host
      [states |-> <<>>,
       initialState |-> NoName, guards |-> {<<"s1", "s2">>, <<NoName, "s2">>, <<"s2", NoName>>},
       defines |-> {<<"s1", Plain>>, <<"s2", EnterOnly>>}, events |-> {},
       args |-> {<<>>}, flows |-> 1],
      \* the hosts that raise events
      [states |-> << <<"s1", Handlers({"ev"})>>,
                     <<"s2", [EnterAndExit EXCEPT !.handles = {"tap"}]>>,
                     <<"beforeAll", Handlers({"ev"})>>,
                     <<"afterAll", Handlers({"ev", "tap"})>> >>,
       initialState |-> "s1", guards |-> {}, defines |-> {}, events |-> {"ev", "tap"},
       args |-> {<<>>}, flows |-> 2],
      [states |-> << <<"s1", Handlers({"ev"})>>, <<"afterAll", Handlers({"ev"})>> >>,
       initialState |-> NoName, guards |-> {}, defines |-> {}, events |-> {"ev"},
       args |-> {<<"a">>}, flows |-> 1] }

(***************************************************************************)
(* Construction: new FiniteStateMachine(initialData).                      *)
(***************************************************************************)
\* a constructor whose initialState call leaves initialStateName alone
constructorKeepsFirstKey(entries, initialName) ==
    LET reg == defineStates([states |-> <<>>, initialStateName |-> NoName], entries)
    IN  IF initialName = NoName
        THEN [states |-> reg.states, initialStateName |-> reg.initialStateName,
              cur |-> NoName, hist |-> <<>>, calls |-> <<>>]
        ELSE [[states |-> reg.states] @@
              initialState(<<>>, reg.states, reg.initialStateName, NoName, <<>>,
                           initialName, <<>>, "constructor")
                 EXCEPT !.initialStateName = reg.initialStateName]

constructor(entries, initialName) ==
    LET reg == defineStates([states |-> <<>>, initialStateName |-> NoName], entries)
    IN  IF initialName = NoName
        THEN [states |-> reg.states, initialStateName |-> reg.initialStateName,
              cur |-> NoName, hist |-> <<>>, calls |-> <<>>]
        ELSE [states |-> reg.states] @@
             initialState(<<>>, reg.states, reg.initialStateName, NoName, <<>>,
                          initialName, <<>>, "constructor")

Init ==
    \E h \in Hosts :
        LET fsm == constructor(h.states, h.initialState)
        IN  /\ host = h
            /\ states = fsm.states
            /\ transitions = {}
            /\ initialStateName = fsm.initialStateName
            /\ currentStateName = fsm.cur
            /\ previousStates = fsm.hist
            /\ transitionQueue = <<>>
            /\ transitioning = FALSE
            /\ calls = fsm.calls
            /\ returned = Returned("none", <<>>, "none")
            /\ performed = Zero
            /\ enteredWith = <<>>

(***************************************************************************)
(* The host's operations.                                                  *)
(***************************************************************************)
\* the arguments the current state was entered with, after a step from the
\* calls cs to the calls cs2: those of the call that went to its target
EnteredWith(rest, cs, cs2) ==
    LET done == {i \in DOMAIN cs2 :
                    /\ cs2[i].outcome = "entered"
                    /\ i \in DOMAIN cs => cs[i].outcome # "entered"}
    IN  IF done = {} THEN rest
        ELSE cs2[CHOOSE j \in done : TRUE].args

\* the forward and backward transitions made, after a step from the calls cs
\* to the calls cs2: a request that went to the initial state, and
\* initialState, start the count again
Count(perf, cs, cs2, initialName) ==
    LET done == {i \in DOMAIN cs2 :
                    /\ cs2[i].outcome = "entered"
                    /\ i \in DOMAIN cs => cs[i].outcome # "entered"}
    IN  IF done = {} THEN perf
        ELSE LET i == CHOOSE j \in done : TRUE
             IN  IF cs2[i].target = initialName THEN Zero
                 ELSE [perf EXCEPT ![cs2[i].direction] = @ + 1]

HostCalls == Cardinality({i \in DOMAIN calls : calls[i].by = "host"})

\* the host may make a call now
PendingCalls == Cardinality({i \in DOMAIN calls : calls[i].promise = "pending"})
CanCall == HostCalls < MaxCalls /\ PendingCalls < host.flows

\* defineTransition that records the check function only between registered states
defineTransitionIfRegistered(trs, sts, fromState, toState, transitionCheck) ==
    IF /\ fromState # NoName /\ toState # NoName /\ transitionCheck
       /\ fromState \in DOMAIN sts /\ toState \in DOMAIN sts
    THEN [transitions |-> trs \cup {<<fromState, toState>>}, returned |-> "this"]
    ELSE [transitions |-> trs, returned |-> "false"]

\* this.defineTransition(fromState, toState, transitionCheck): a missing name is
\* NoName, transitionCheck tells whether the function is given; the registry
\* sts is read to log only
defineTransition(trs, sts, fromState, toState, transitionCheck) ==
    IF fromState # NoName /\ toState # NoName /\ transitionCheck
    THEN [transitions |-> trs \cup {<<fromState, toState>>}, returned |-> "this"]
    ELSE [transitions |-> trs, returned |-> "false"]

DefineTransition(fromState, toState, transitionCheck) ==
    /\ HostCalls = 0
    /\ LET run == defineTransition(transitions, states, fromState, toState, transitionCheck)
       IN  /\ transitions' = run.transitions
           /\ returned' = Returned("defineTransition",
                                   <<fromState, toState, transitionCheck>>, run.returned)
    /\ UNCHANGED <<states, initialStateName, currentStateName, previousStates,
                   transitionQueue, transitioning, calls, host, performed, enteredWith>>

DefineState(name, definition) ==
    /\ LET reg == defineState([states |-> states, initialStateName |-> initialStateName],
                              name, definition)
       IN  /\ states' = reg.states
           /\ initialStateName' = reg.initialStateName
    /\ returned' = Returned("defineState", <<name>>, "this")
    /\ UNCHANGED <<transitions, currentStateName, previousStates, transitionQueue,
                   transitioning, calls, host, performed, enteredWith>>

InitialState(stateName, rest) ==
    /\ CanCall
    /\ LET run == initialState(Retire(calls), states, initialStateName, currentStateName,
                               previousStates, stateName, rest, "host")
       IN  /\ initialStateName' = run.initialStateName
           /\ currentStateName' = run.cur
           /\ previousStates' = run.hist
           /\ calls' = run.calls
           /\ performed' = Count(performed, calls, run.calls, run.initialStateName)
           /\ enteredWith' = EnteredWith(enteredWith, calls, run.calls)
    /\ returned' = Returned("initialState", <<stateName, rest>>, "promise")
    /\ UNCHANGED <<states, transitions, transitionQueue, transitioning, host>>

Drain(cs, queue, cur, hist, id) ==
    LET run == processTransition(cs, queue, cur, hist, id)
    IN  /\ calls' = run.calls
        /\ transitionQueue' = run.queue
        /\ currentStateName' = run.cur
        /\ previousStates' = run.hist
        /\ transitioning' = run.transitioning
        /\ performed' = Count(performed, calls, run.calls, initialStateName)
        /\ enteredWith' = EnteredWith(enteredWith, calls, run.calls)

EnterState(newStateName, rest) ==
    /\ CanCall
    /\ LET id == Len(calls) + 1
           call == NewCall(calls, states, transitions, currentStateName, previousStates,
                           "enter", "host", newStateName, "forward", rest)
       IN  Drain(Append(Retire(calls), call), Append(transitionQueue, id),
                 currentStateName, previousStates, id)
    /\ returned' = Returned("enterState", <<newStateName, rest>>, "promise")
    /\ UNCHANGED <<states, transitions, initialStateName, host>>

\* exitState without its empty-history tests
NeverNoPreviousState(hist) == FALSE

\* if (!this._previousStates.length) throw ...; if (!previousState) throw ...
NoPreviousState(hist) == Len(hist) = 0

\* this._previousStates.pop(): the entry popped (undefined on an empty array)
NoEntry == [name |-> NoName, args |-> <<>>]
PopEntry(hist) == IF Len(hist) = 0 THEN NoEntry ELSE hist[Len(hist)]
\* this._previousStates.pop(): the array left
PopRest(hist) == IF Len(hist) = 0 THEN hist ELSE SubSeq(hist, 1, Len(hist) - 1)

\* exitState that always goes back with the stored arguments
StoredArgs(rest, previousState) == previousState.args

\* const dataArgs = (rest && rest.length) ? rest : previousState.args
DataArgs(rest, previousState) ==
    IF Len(rest) > 0 THEN rest ELSE previousState.args

ExitState(rest) ==
    /\ CanCall
    /\ IF NoPreviousState(previousStates)
       THEN /\ calls' = Append(Retire(calls),
                   [NewCall(calls, states, transitions, currentStateName, previousStates,
                            "exit", "host", NoName, "backward", rest)
                       EXCEPT !.pc = "none", !.promise = "rejected",
                              !.value = NoHistoryError, !.outcome = "rejected"])
            /\ UNCHANGED <<currentStateName, previousStates, transitionQueue,
                           transitioning, performed, enteredWith>>
       ELSE LET previousState == PopEntry(previousStates)
                dataArgs == DataArgs(rest, previousState)
                id == Len(calls) + 1
                call == NewCall(calls, states, transitions, currentStateName,
                                previousStates, "exit", "host", previousState.name,
                                "backward", dataArgs)
            IN  Drain(Append(Retire(calls), call), Append(transitionQueue, id),
                      currentStateName, PopRest(previousStates), id)
    /\ returned' = Returned("exitState", <<rest>>, "promise")
    /\ UNCHANGED <<states, transitions, initialStateName, host>>

(***************************************************************************)
(* raiseEvent, up to its first await and from each of its awaits on.       *)
(***************************************************************************)
\* definition && definition[eventName]
Handles(definition, eventName) == definition.defined /\ eventName \in definition.handles

\* return result
Settle(req, result) ==
    [Return(req, result, "raised") EXCEPT !.promise = "resolved", !.value = result]

\* from the afterAll test on
raiseEventAfter(sts, req) ==
    IF Handles(getState(sts, "afterAll"), req.target)
    THEN Invoke(req, "afterAll", "afterAll")
    ELSE Settle(req, req.result)

\* raiseEvent going to the state that was current when it was called
raiseEventCurrentAtCall(sts, cur, req) ==
    LET currentStateObj == getState(sts, req.cur0)
    IN  IF ~currentStateObj.defined
        THEN [req EXCEPT !.pc = "returned", !.promise = "rejected", !.value = TypeError,
                         !.outcome = "rejected"]
        ELSE IF req.target \in currentStateObj.handles
        THEN Invoke(req, "handler", req.cur0)
        ELSE raiseEventAfter(sts, req)

\* from the current state's test on: currentStateObj[eventName] throws a
\* TypeError when the current state has no definition
raiseEventCurrent(sts, cur, req) ==
    LET currentStateObj == getState(sts, cur)
    IN  IF ~currentStateObj.defined
        THEN [req EXCEPT !.pc = "returned", !.promise = "rejected", !.value = TypeError,
                         !.outcome = "rejected"]
        ELSE IF req.target \in currentStateObj.handles
        THEN Invoke(req, "handler", cur)
        ELSE raiseEventAfter(sts, req)

raiseEvent(sts, cur, req) ==
    IF Handles(getState(sts, "beforeAll"), req.target)
    THEN Invoke(req, "beforeAll", "beforeAll")
    ELSE raiseEventCurrent(sts, cur, req)

RaiseEvent(eventName, rest) ==
    /\ CanCall
    /\ calls' = Append(Retire(calls),
                   raiseEvent(states, currentStateName,
                       NewCall(calls, states, transitions, currentStateName,
                               previousStates, "event", "host", eventName, "none", rest)))
    /\ returned' = Returned("raiseEvent", <<eventName, rest>>, "promise")
    /\ UNCHANGED <<states, transitions, initialStateName, currentStateName, previousStates,
                   transitionQueue, transitioning, host, performed, enteredWith>>

\* raiseEvent dropping the history as it goes on
RaisedClearsHistory(id, req) ==
    /\ calls' = [calls EXCEPT ![id] = req]
    /\ previousStates' = <<>>
    /\ UNCHANGED <<states, transitions, initialStateName, currentStateName,
                   transitionQueue, transitioning, host, returned, performed, enteredWith>>

\* a handler resolves and raiseEvent runs to its next await
Raised(id, req) ==
    /\ calls' = [calls EXCEPT ![id] = req]
    /\ UNCHANGED <<states, transitions, initialStateName, currentStateName, previousStates,
                   transitionQueue, transitioning, host, returned, performed, enteredWith>>

BeforeAllResolves(id, value) ==
    /\ calls[id].pc = "beforeAll"
    /\ Raised(id, raiseEventCurrent(states, currentStateName, Resolve(calls[id], value)))

HandlerResolves(id, value) ==
    /\ calls[id].pc = "handler"
    /\ Raised(id, raiseEventAfter(states, [Resolve(calls[id], value) EXCEPT !.result = value]))

AfterAllResolves(id, value) ==
    /\ calls[id].pc = "afterAll"
    /\ Raised(id, Settle(Resolve(calls[id], value), calls[id].result))

(***************************************************************************)
(* The continuations: a check function or a callback resolves, and the     *)
(* async function awaiting it runs to its next await.                      *)
(***************************************************************************)
Continue(id, run) ==
    /\ calls' = [calls EXCEPT ![id] = run.req]
    /\ currentStateName' = run.cur
    /\ previousStates' = run.hist
    /\ performed' = Count(performed, calls, calls', initialStateName)
    /\ enteredWith' = EnteredWith(enteredWith, calls, calls')
    /\ UNCHANGED <<states, transitions, initialStateName, transitionQueue, transitioning,
                   host, returned>>

GuardResolves(id, result) ==
    /\ calls[id].pc = "guard"
    /\ Continue(id,
           IF IsError(result)
           THEN [cur |-> currentStateName, hist |-> previousStates,
                 req |-> Return(Resolve(calls[id], result), result, "guardRejected")]
           ELSE transitionStates(currentStateName, previousStates,
                                 Resolve(calls[id], result)))

ExitResolves(id, exitResult) ==
    /\ calls[id].pc = "exit"
    /\ Continue(id,
           IF IsError(exitResult)
           THEN [cur |-> currentStateName, hist |-> previousStates,
                 req |-> Return(Resolve(calls[id], exitResult), exitResult, "exitError")]
           ELSE goToNextState(currentStateName, previousStates,
                              Resolve(calls[id], exitResult)))

EnterResolves(id, enterResult) ==
    /\ calls[id].pc = "enter"
    /\ Continue(id,
           [cur |-> currentStateName, hist |-> previousStates,
            req |-> IF calls[id].kind = "initial"
                    THEN [Return(Resolve(calls[id], enterResult), enterResult, "entered")
                             EXCEPT !.promise = "resolved", !.value = enterResult]
                    ELSE Return(Resolve(calls[id], enterResult), enterResult, "entered")])

\* _processTransition after yield func(), and the enterState/exitState that awaits it
ProcessResume(id) ==
    /\ calls[id].promise = "pending"
    /\ calls[id].awaiting # 0
    /\ FuncResolved(calls[calls[id].awaiting])
    /\ Drain(calls, transitionQueue, currentStateName, previousStates, id)
    /\ UNCHANGED <<states, transitions, initialStateName, host, returned>>

Next ==
    \/ \E pair \in host.guards, transitionCheck \in BOOLEAN :
          DefineTransition(pair[1], pair[2], transitionCheck)
    \/ \E entry \in host.defines : DefineState(entry[1], entry[2])
    \/ \E eventName \in host.events, rest \in host.args : RaiseEvent(eventName, rest)
    \/ \E id \in DOMAIN calls, value \in BeforeResults : BeforeAllResolves(id, value)
    \/ \E id \in DOMAIN calls, value \in HandlerResults : HandlerResolves(id, value)
    \/ \E id \in DOMAIN calls, value \in AfterResults : AfterAllResolves(id, value)
    \/ \E stateName \in Names, rest \in host.args : InitialState(stateName, rest)
    \/ \E newStateName \in Names, rest \in host.args : EnterState(newStateName, rest)
    \/ \E rest \in host.args : ExitState(rest)
    \/ \E id \in DOMAIN calls, result \in GuardResults : GuardResolves(id, result)
    \/ \E id \in DOMAIN calls, exitResult \in ExitResults : ExitResolves(id, exitResult)
    \/ \E id \in DOMAIN calls, enterResult \in EnterResults : EnterResolves(id, enterResult)
    \/ \E id \in DOMAIN calls : ProcessResume(id)

Spec == Init /\ [][Next]_vars

(***************************************************************************)
(* The same machine when every guard, callback and handler that is awaited *)
(* resolves, and every promise reaction the event loop holds is run.       *)
(***************************************************************************)
Fairness ==
    /\ WF_vars(\E id \in DOMAIN calls, result \in GuardResults : GuardResolves(id, result))
    /\ WF_vars(\E id \in DOMAIN calls, exitResult \in ExitResults :
                  ExitResolves(id, exitResult))
    /\ WF_vars(\E id \in DOMAIN calls, enterResult \in EnterResults :
                  EnterResolves(id, enterResult))
    /\ WF_vars(\E id \in DOMAIN calls : ProcessResume(id))
    /\ WF_vars(\E id \in DOMAIN calls, value \in BeforeResults : BeforeAllResolves(id, value))
    /\ WF_vars(\E id \in DOMAIN calls, value \in HandlerResults : HandlerResolves(id, value))
    /\ WF_vars(\E id \in DOMAIN calls, value \in AfterResults : AfterAllResolves(id, value))

\* the hosts that keep at most two calls pending at a time
InitFair == Init /\ host.flows < 3

FairSpec == InitFair /\ [][Next]_vars /\ Fairness

(***************************************************************************)
(* What the properties below talk about.                                   *)
(***************************************************************************)
\* call i pushed a transition request (a rejected exitState pushed none)
IsRequest(i) == calls[i].kind \in {"enter", "exit"} /\ calls[i].pc # "none"

\* request i has been dequeued and its guard+exit+enter sequence is not over
InFlight(i) == IsRequest(i) /\ calls[i].pc \in {"guard", "exit", "enter"}

\* call i was made while no other call was pending, and no call was made since
Solo(i) == i = Len(calls) /\ calls[i].quiet

\* this step is the one in which call i enters its target state
Commits(i) ==
    /\ calls'[i].outcome = "entered"
    /\ i \in DOMAIN calls => calls[i].outcome # "entered"

\* the exit and enter callbacks request i invoked, in order
Callbacks(i) ==
    LET cbs == SelectSeq(calls[i].invoked, LAMBDA e : e.cb # "guard")
    IN  [k \in DOMAIN cbs |-> [cb |-> cbs[k].cb, state |-> cbs[k].state]]

\* C1: at most one transition request is in flight at any time: no request
\* is dequeued and run between the start and the completion of another
\* request's guard+exit+enter sequence.
C1_AtMostOneInFlight ==
    Cardinality({i \in DOMAIN calls : InFlight(i)}) <= 1

\* C2: requests complete in call order: a request made later changes
\* currentStateName or the history, or completes, only after every request
\* made before it has completed.
C2_CompletesInCallOrder ==
    \A i, j \in DOMAIN calls :
        (i < j /\ IsRequest(i) /\ IsRequest(j)
           /\ (calls[j].outcome = "entered" \/ calls[j].pc = "returned"))
        => calls[i].pc = "returned"

\* C3: the promise of an enterState/exitState call that is the only call
\* pending resolves with the result of its own request (the guard's error,
\* the undefined-state error, the exit callback's error, or the value the
\* enter callback resolved with).
C3_ResolvesWithOwnResult ==
    \A i \in DOMAIN calls :
        (IsRequest(i) /\ Solo(i) /\ calls[i].promise = "resolved")
        => calls[i].value = calls[i].result

\* C4: when the guard cancels a request, forward or backward, currentStateName
\* and the history stack are what they were before the call, and no exit or
\* enter callback was invoked.
C4_GuardCancelLeavesStateUnchanged ==
    \A i \in DOMAIN calls :
        (IsRequest(i) /\ Solo(i) /\ calls[i].outcome = "guardRejected")
        => /\ currentStateName = calls[i].cur0
           /\ previousStates = calls[i].hist0
           /\ Callbacks(i) = <<>>

\* C5: a completed exitState() removes exactly the top entry of the history,
\* pushes nothing, and sets currentStateName to that entry's name.
C5_ExitPopsOneEntry ==
    \A i \in DOMAIN calls :
        (calls[i].kind = "exit" /\ Solo(i) /\ calls[i].outcome \in {"entered", "noop"})
        => LET hist0 == calls[i].hist0
           IN  /\ Len(hist0) > 0
               /\ currentStateName = hist0[Len(hist0)].name
               /\ previousStates = SubSeq(hist0, 1, Len(hist0) - 1)

\* a completed exitState() that went back from a history of two entries
C5_Witness ==
    \E i \in DOMAIN calls :
        /\ calls[i].kind = "exit" /\ Solo(i) /\ calls[i].outcome = "entered"
        /\ calls[i].pc = "returned" /\ Len(calls[i].hist0) = 2
        /\ Len(previousStates) = 1

\* C6: exitState called on an empty history rejects with "No previous state
\* to transition to", enqueues no request, invokes no callback, and leaves
\* currentStateName and the history stack unchanged.
C6_ExitOnEmptyHistoryRejects ==
    [][\A i \in DOMAIN calls' :
          (i \notin DOMAIN calls /\ calls'[i].kind = "exit" /\ Len(previousStates) = 0)
          => /\ calls'[i].promise = "rejected"
             /\ calls'[i].value = NoHistoryError
             /\ calls'[i].pc = "none" /\ calls'[i].invoked = <<>>
             /\ transitionQueue' = transitionQueue
             /\ currentStateName' = currentStateName
             /\ previousStates' = previousStates
             /\ \A j \in DOMAIN calls : calls'[j] = Retire(calls)[j]]_vars

\* the exitState that follows enterState + exitState from the initial state
\* was rejected
C6_Witness ==
    \E i \in DOMAIN calls :
        /\ calls[i].kind = "exit" /\ calls[i].promise = "rejected"
        /\ HostCalls = 3 /\ calls[i].quiet
        /\ calls[i].cur0 = initialStateName /\ currentStateName = initialStateName

\* C7: every operation that makes currentStateName equal to initialStateName
\* leaves the history stack empty.
C7_EnteringInitialEmptiesHistory ==
    [][(\/ /\ currentStateName' = initialStateName'
           /\ \/ currentStateName' # currentStateName
              \/ initialStateName' # initialStateName
        \/ \E i \in DOMAIN calls' : Commits(i) /\ calls'[i].target = initialStateName')
       => previousStates' = <<>>]_vars

\* enterState reached the initial state from a history of two entries
C7_Witness ==
    \E i \in DOMAIN calls :
        /\ calls[i].kind = "enter" /\ calls[i].outcome = "entered"
        /\ calls[i].target = initialStateName /\ currentStateName = initialStateName
        /\ Len(calls[i].hist0) = 2 /\ previousStates = <<>>

\* the precondition of C8: enterState(target) with target not the current
\* state, both registered, no guard registered for the pair
C8_Applies(i) ==
    /\ calls[i].kind = "enter"
    /\ calls[i].target # calls[i].cur0
    /\ calls[i].registered0 /\ ~calls[i].guarded0

\* C8 as stated: such a transition always succeeds and leaves the previous
\* history with exactly one entry {name: previous state, args} appended.
C8_PushesExactlyOneEntry ==
    \A i \in DOMAIN calls :
        (C8_Applies(i) /\ Solo(i) /\ calls[i].pc = "returned")
        => /\ calls[i].outcome = "entered"
           /\ currentStateName = calls[i].target
           /\ previousStates = Append(calls[i].hist0,
                  [name |-> calls[i].cur0, args |-> calls[i].args])

\* C8 amended: unless the exit callback of the state left resolves to an
\* error, the transition succeeds; the step that makes it sets
\* currentStateName to target and appends exactly one entry {name: the state
\* left, args} to the history, or empties the history when target is the
\* initial state; for a call made alone the state left and the history are
\* those of the call.
C8_PushesOneEntryOrClears ==
    /\ [](\A i \in DOMAIN calls :
            (C8_Applies(i) /\ calls[i].pc = "returned" /\ calls[i].outcome # "exitError")
            => /\ calls[i].outcome = "entered"
               /\ Solo(i) =>
                    /\ currentStateName = calls[i].target
                    /\ previousStates =
                          IF calls[i].target = initialStateName THEN <<>>
                          ELSE Append(calls[i].hist0,
                                  [name |-> calls[i].cur0, args |-> calls[i].args]))
    /\ [][\A i \in DOMAIN calls' :
            (calls'[i].kind = "enter" /\ Commits(i))
            => /\ currentStateName' = calls'[i].target
               /\ previousStates' =
                     IF calls'[i].target = initialStateName' THEN <<>>
                     ELSE Append(previousStates,
                             [name |-> currentStateName, args |-> calls'[i].args])]_vars

\* an unguarded forward transition pushed a second entry with its args
C8_Witness ==
    \E i \in DOMAIN calls :
        /\ C8_Applies(i) /\ Solo(i)
        /\ calls[i].pc = "returned" /\ calls[i].outcome = "entered"
        /\ Len(calls[i].hist0) = 1 /\ Len(previousStates) = 2
        /\ calls[i].args = <<"a">>

\* C9: enterState(name) with name the current state is a no-op: no guard or
\* callback is invoked, the result is undefined, and currentStateName and the
\* history stack are unchanged.
C9_EnterCurrentIsNoOp ==
    /\ [](\A i \in DOMAIN calls :
            (calls[i].kind = "enter" /\ calls[i].target = calls[i].cur0)
            => /\ calls[i].pc = "returned" /\ calls[i].outcome = "noop"
               /\ calls[i].result = Undefined
               /\ calls[i].invoked = <<>>)
    /\ [][\A i \in DOMAIN calls' :
            (i \notin DOMAIN calls /\ calls'[i].kind = "enter"
               /\ calls'[i].target = currentStateName)
            => /\ currentStateName' = currentStateName
               /\ previousStates' = previousStates
               /\ transitionQueue' = transitionQueue
               /\ \A j \in DOMAIN calls : calls'[j] = Retire(calls)[j]]_vars

\* enterState of the current state, with history behind it
C9_Witness ==
    \E i \in DOMAIN calls :
        /\ calls[i].kind = "enter" /\ calls[i].target = calls[i].cur0 /\ Solo(i)
        /\ calls[i].promise = "resolved" /\ Len(previousStates) > 0

\* C10: the promise of enterState/exitState resolves only after the exit
\* callback of the state left and the enter callback of the target were
\* invoked and resolved, in that order; calls awaited one after the other
\* never have two callbacks pending at once.
C10_ResolvesAfterCallbacks ==
    /\ \A i \in DOMAIN calls :
          (IsRequest(i) /\ calls[i].promise = "resolved") => calls[i].pc = "returned"
    /\ \A i \in DOMAIN calls :
          (IsRequest(i) /\ Solo(i) /\ calls[i].outcome = "entered"
             /\ calls[i].pc = "returned")
          => Callbacks(i) =
                (IF getState(states, calls[i].cur0).exit
                 THEN <<[cb |-> "exit", state |-> calls[i].cur0]>> ELSE <<>>)
                \o (IF getState(states, calls[i].target).enter
                    THEN <<[cb |-> "enter", state |-> calls[i].target]>> ELSE <<>>)
    /\ (\A i \in DOMAIN calls : calls[i].kind # "retired" => calls[i].quiet)
       => Cardinality({i \in DOMAIN calls :
                          calls[i].pc \in {"guard", "exit", "enter"}}) <= 1

\* enterState(s3) from s2 resolved after exit(s2) and enter(s3)
C10_Witness ==
    \E i \in DOMAIN calls :
        /\ calls[i].kind = "enter" /\ Solo(i) /\ calls[i].promise = "resolved"
        /\ Callbacks(i) = <<[cb |-> "exit", state |-> "s2"], [cb |-> "enter", state |-> "s3"]>>

\* call i is made in this step
IsNew(i) == i \in DOMAIN calls' /\ i \notin DOMAIN calls

\* C11: initialState(name) with name not registered rejects with the "does
\* not exist" failure and leaves initialStateName, currentStateName and the
\* history stack unchanged, whatever state the machine was in.
C11_UnregisteredInitialStateRejects ==
    [][\A i \in DOMAIN calls' :
          (IsNew(i) /\ calls'[i].kind = "initial" /\ calls'[i].target \notin DOMAIN states)
          => /\ calls'[i].promise = "rejected"
             /\ calls'[i].value = NotFoundError
             /\ calls'[i].invoked = <<>>
             /\ initialStateName' = initialStateName
             /\ currentStateName' = currentStateName
             /\ previousStates' = previousStates]_vars

\* initialState of an unregistered name was rejected on a machine with history
C11_Witness ==
    \E i \in DOMAIN calls :
        /\ calls[i].kind = "initial" /\ calls[i].by = "host"
        /\ calls[i].target \notin DOMAIN states
        /\ calls[i].promise = "rejected"
        /\ Len(previousStates) > 0 /\ currentStateName # initialStateName

\* C12: initialState(name, args) with name registered sets initialStateName
\* and currentStateName to name and empties the history stack, from any state
\* of the machine; it resolves with the value name's enter callback, called
\* with args, resolved with, and with undefined when name has no enter
\* callback.
C12_InitialStateResets ==
    /\ [](\A i \in DOMAIN calls :
            (calls[i].kind = "initial" /\ calls[i].promise = "resolved")
            => \/ calls[i].invoked = <<>> /\ calls[i].value = Undefined
               \/ calls[i].invoked = <<[cb |-> "enter", state |-> calls[i].target,
                                        args |-> calls[i].args,
                                        value |-> calls[i].value]>>)
    /\ [][\A i \in DOMAIN calls' :
            (IsNew(i) /\ calls'[i].kind = "initial" /\ calls'[i].target \in DOMAIN states)
            => /\ initialStateName' = calls'[i].target
               /\ currentStateName' = calls'[i].target
               /\ previousStates' = <<>>
               /\ IF states[calls'[i].target].enter
                  THEN /\ calls'[i].promise = "pending"
                       /\ calls'[i].invoked =
                             <<[cb |-> "enter", state |-> calls'[i].target,
                                args |-> calls'[i].args, value |-> Pending]>>
                  ELSE /\ calls'[i].promise = "resolved"
                       /\ calls'[i].invoked = <<>>]_vars

\* initialState(s2, "a") called in another state with history resolved with
\* the value of enter("a")
C12_Witness ==
    \E i \in DOMAIN calls :
        /\ calls[i].kind = "initial" /\ calls[i].by = "host" /\ Solo(i)
        /\ calls[i].promise = "resolved" /\ calls[i].value = EnterValue
        /\ calls[i].args = <<"a">>
        /\ Len(calls[i].hist0) > 0 /\ calls[i].cur0 # calls[i].target
        /\ currentStateName = calls[i].target /\ initialStateName = calls[i].target
        /\ previousStates = <<>>

\* in this step request i resolves the definitions of the current state and
\* of its target: it is dequeued with no guard to evaluate, or its guard
\* resolves with a value that is not an error
ResolvesDefinitions(i) ==
    \/ /\ IsNew(i) /\ calls'[i].kind \in {"enter", "exit"} /\ calls'[i].pc # "none"
       /\ calls'[i].target # currentStateName
       /\ <<currentStateName, calls'[i].target>> \notin transitions
    \/ /\ i \in DOMAIN calls /\ calls[i].pc = "guard" /\ calls'[i].pc # "guard"
       /\ \A k \in DOMAIN calls'[i].invoked :
             calls'[i].invoked[k].cb = "guard" => calls'[i].invoked[k].value # GuardError

\* C13: a request whose current state or target state has no registered
\* definition ends with the "at least one is not defined" error as its
\* result, leaves currentStateName and the history stack unchanged, and
\* invokes neither an exit nor an enter callback.
C13_UndefinedStateIsAnErrorResult ==
    [][\A i \in DOMAIN calls' :
          (/\ ResolvesDefinitions(i)
           /\ \/ currentStateName \notin DOMAIN states
              \/ calls'[i].target \notin DOMAIN states)
          => /\ calls'[i].pc = "returned"
             /\ calls'[i].result = UndefinedStateError
             /\ \A k \in DOMAIN calls'[i].invoked :
                   calls'[i].invoked[k].cb \notin {"exit", "enter"}
             /\ currentStateName' = currentStateName
             /\ previousStates' = previousStates]_vars

\* enterState of an unregistered target, from a registered state with a guard
\* for the pair that let it pass, ended with the error
C13_Witness ==
    \E i \in DOMAIN calls :
        /\ calls[i].kind = "enter" /\ calls[i].pc = "returned"
        /\ calls[i].result = UndefinedStateError
        /\ calls[i].target \notin DOMAIN states
        /\ calls[i].invoked = <<[cb |-> "guard", state |-> currentStateName,
                                 args |-> <<>>, value |-> Undefined]>>
        /\ currentStateName \in DOMAIN states

\* the exit callback request i invoked resolved with an error value
ExitFailed(i) ==
    \E k \in DOMAIN calls[i].invoked :
        calls[i].invoked[k].cb = "exit" /\ calls[i].invoked[k].value = ExitError

\* C14: when the exit callback of the current state resolves to an error
\* value, sequencing stops: currentStateName is unchanged, nothing is pushed
\* onto the history stack, the target's enter callback is never invoked, and
\* the error value is the request's result.
C14_ExitErrorStopsSequencing ==
    /\ [](\A i \in DOMAIN calls :
            ExitFailed(i)
            => /\ calls[i].pc = "returned"
               /\ calls[i].result = ExitError
               /\ calls[i].invoked[Len(calls[i].invoked)].cb = "exit"
               /\ Solo(i) =>
                    /\ currentStateName = calls[i].cur0
                    /\ previousStates = IF calls[i].kind = "exit"
                                        THEN PopRest(calls[i].hist0)
                                        ELSE calls[i].hist0)
    /\ [][\A i \in DOMAIN calls :
            (calls[i].pc = "exit" /\ calls'[i].pc # "exit"
               /\ calls'[i].invoked[Len(calls'[i].invoked)].value = ExitError)
            => /\ currentStateName' = currentStateName
               /\ previousStates' = previousStates]_vars

\* enterState from a state with history to a state with an enter callback
\* stopped at the exit callback's error
C14_Witness ==
    \E i \in DOMAIN calls :
        /\ calls[i].kind = "enter" /\ Solo(i) /\ ExitFailed(i)
        /\ getState(states, calls[i].target).enter
        /\ Len(calls[i].hist0) > 0
        /\ calls[i].promise = "resolved"

\* C15: at every point where no request is in flight, the length of the
\* history stack is the number of forward transitions made since
\* currentStateName last became the initial state, minus the number of
\* backward (exitState) transitions completed since then.
C15_HistoryLengthCountsTransitions ==
    (\A i \in DOMAIN calls : ~InFlight(i))
    => Len(previousStates) = performed.forward - performed.backward

\* every callback of the kinds cbs that the request req invoked has resolved
\* with a value that is not an error
ResolvedWell(req, cbs) ==
    \A k \in DOMAIN req.invoked :
        req.invoked[k].cb \in cbs
        => req.invoked[k].value \notin {Pending, GuardError, ExitError}

\* C16 as stated: at any instant at which currentStateName differs from its
\* value when a request started, that request's guard, exit callback and
\* enter callback have all already resolved with non-error values.
C16_ChangesAfterEnterResolved ==
    \A i \in DOMAIN calls :
        (IsRequest(i) /\ Solo(i) /\ currentStateName # calls[i].cur0)
        => ResolvedWell(calls[i], {"guard", "exit", "enter"})

\* C16 amended: currentStateName changes only in initialState or in the step
\* of a request that follows its guard and its exit callback, both resolved
\* with non-error values, and that invokes the target's enter callback; at
\* any instant at which currentStateName differs from its value when a
\* request made alone started, it is the request's target and the request's
\* guard and exit callback have resolved with non-error values.
C16_ChangesAfterGuardAndExit ==
    /\ [](\A i \in DOMAIN calls :
            (IsRequest(i) /\ Solo(i) /\ currentStateName # calls[i].cur0)
            => /\ currentStateName = calls[i].target
               /\ ResolvedWell(calls[i], {"guard", "exit"}))
    /\ [][currentStateName' # currentStateName
          => \E i \in DOMAIN calls' :
                /\ currentStateName' = calls'[i].target
                /\ \/ IsNew(i) /\ calls'[i].kind = "initial"
                   \/ /\ calls'[i].kind \in {"enter", "exit"}
                      /\ Commits(i)
                      /\ ResolvedWell(calls'[i], {"guard", "exit"})
                      /\ \A k \in DOMAIN calls'[i].invoked :
                            calls'[i].invoked[k].cb = "enter"
                            => calls'[i].invoked[k].value = Pending]_vars

\* a request whose guard and exit callback have resolved has changed
\* currentStateName while its enter callback is still pending
C16_Witness ==
    \E i \in DOMAIN calls :
        /\ IsRequest(i) /\ Solo(i) /\ calls[i].pc = "enter"
        /\ currentStateName = calls[i].target /\ currentStateName # calls[i].cur0
        /\ Len(calls[i].invoked) = 3
        /\ calls[i].invoked[1].cb = "guard" /\ calls[i].invoked[1].value = Undefined
        /\ calls[i].invoked[2].cb = "exit" /\ calls[i].invoked[2].value = Undefined
        /\ calls[i].invoked[3].value = Pending

\* initialState is called in this step and does not reject
InitialStateSucceeds ==
    \E i \in DOMAIN calls' :
        IsNew(i) /\ calls'[i].kind = "initial" /\ calls'[i].promise # "rejected"

\* C17: on a fresh machine the name given to the first defineState call
\* becomes initialStateName and stays it through every later defineState,
\* defineTransition, enterState, exitState and raiseEvent, until initialState
\* is called successfully.
C17_FirstDefinedStateIsInitial ==
    /\ (host.states # <<>> /\ (calls = <<>> \/ calls[1].promise = "rejected"))
       => initialStateName = host.states[1][1]
    /\ [][(DOMAIN states = {} /\ initialStateName = NoName /\ states' # states)
          => DOMAIN states' = {initialStateName'}]_vars
    /\ [][(initialStateName # NoName /\ ~InitialStateSucceeds)
          => initialStateName' = initialStateName]_vars

\* on a machine the host built with defineState(s2) first and defineState(s1)
\* second, s2 is still the initial name after an enterState
C17_Witness ==
    /\ host.states = <<>>
    /\ initialStateName = "s2" /\ DOMAIN states = {"s1", "s2"}
    /\ \E i \in DOMAIN calls : calls[i].kind = "enter" /\ calls[i].pc = "returned"

\* C18: defineTransition(from, to, guard) with the three arguments present
\* records the guard for the pair (from, to), also when from or to is not a
\* registered state, and a later request from 'from' to 'to' evaluates it;
\* with an argument missing it returns false and the guards are unchanged.
C18_DefineTransitionRecordsGuard ==
    /\ [][(returned'.op = "defineTransition"
             /\ (returned.op = "defineTransition" => returned' # returned))
          => LET fromState == returned'.args[1]
                 toState == returned'.args[2]
                 transitionCheck == returned'.args[3]
             IN  IF fromState # NoName /\ toState # NoName /\ transitionCheck
                 THEN /\ transitions' = transitions \cup {<<fromState, toState>>}
                      /\ returned'.value = "this"
                 ELSE /\ transitions' = transitions
                      /\ returned'.value = "false"]_vars
    /\ [][/\ transitions \subseteq transitions'
          /\ \A i \in DOMAIN calls' :
                (IsNew(i) /\ calls'[i].kind \in {"enter", "exit"} /\ calls'[i].pc # "none"
                   /\ calls'[i].target # currentStateName)
                => (<<currentStateName, calls'[i].target>> \in transitions
                    <=> /\ calls'[i].invoked # <<>>
                        /\ calls'[i].invoked[1].cb = "guard"
                        /\ calls'[i].invoked[1].state = currentStateName)]_vars

\* enterState evaluates the guard recorded for a target that is on no
\* registry, on a machine built empty
C18_Witness ==
    /\ host.states = <<>>
    /\ \E i \in DOMAIN calls :
          /\ calls[i].kind = "enter" /\ calls[i].pc = "guard"
          /\ calls[i].target \notin DOMAIN states
          /\ <<currentStateName, calls[i].target>> \in transitions

\* the handlers raiseEvent call i is to invoke, in order, when the current
\* state is cur
HandlersOf(i, cur) ==
    (IF Handles(getState(states, "beforeAll"), calls[i].target)
     THEN <<[cb |-> "beforeAll", state |-> "beforeAll"]>> ELSE <<>>)
    \o (IF Handles(getState(states, cur), calls[i].target)
        THEN <<[cb |-> "handler", state |-> cur]>> ELSE <<>>)
    \o (IF Handles(getState(states, "afterAll"), calls[i].target)
        THEN <<[cb |-> "afterAll", state |-> "afterAll"]>> ELSE <<>>)

\* the handlers call i invoked, in order
HandlersInvoked(i) ==
    [k \in DOMAIN calls[i].invoked |->
        [cb |-> calls[i].invoked[k].cb, state |-> calls[i].invoked[k].state]]

\* what the current state's handler resolved with in call i, undefined when
\* none was invoked
HandlerResult(i) ==
    LET own == SelectSeq(calls[i].invoked, LAMBDA e : e.cb = "handler")
    IN  IF own = <<>> THEN Undefined ELSE own[1].value

\* C19: raiseEvent(eventName, args) invokes the beforeAll handler, the
\* current state's handler and the afterAll handler for eventName, those
\* that are defined, in this order and each after the previous one resolved,
\* and resolves with the current state's handler result, whatever the other
\* two resolve with.
C19_RaiseEventOrder ==
    \A i \in DOMAIN calls :
        (calls[i].kind = "event" /\ Solo(i))
        => /\ \A k \in DOMAIN calls[i].invoked :
                 /\ calls[i].invoked[k].args = calls[i].args
                 /\ k < Len(calls[i].invoked) => calls[i].invoked[k].value # Pending
           /\ calls[i].promise # "pending"
              => /\ calls[i].promise = "resolved"
                 /\ HandlersInvoked(i) = HandlersOf(i, calls[i].cur0)
                 /\ calls[i].value = HandlerResult(i)

\* C20: raiseEvent(eventName) for an eventName the current state does not
\* handle resolves with undefined, and does not reject, after the beforeAll
\* and afterAll handlers for eventName, if they exist, have run.
C20_UnhandledEventResolvesUndefined ==
    \A i \in DOMAIN calls :
        (/\ calls[i].kind = "event" /\ Solo(i) /\ calls[i].promise # "pending"
         /\ ~Handles(getState(states, calls[i].cur0), calls[i].target))
        => /\ calls[i].promise = "resolved"
           /\ calls[i].value = Undefined
           /\ HandlersInvoked(i) = HandlersOf(i, calls[i].cur0)

\* C21: exitState() without arguments passes the stored args of the popped
\* history entry to the guard, to the exit callback of the state left and to
\* the enter callback of the target; exitState(a1..an) passes a1..an to the
\* three instead; in both cases the target is the popped entry's name.
C21_ExitStateArguments ==
    \A i \in DOMAIN calls :
        (i = Len(calls) /\ IsRequest(i) /\ calls[i].kind = "exit"
           /\ returned.op = "exitState")
        => LET rest == returned.args[1]
               top == calls[i].hist0[Len(calls[i].hist0)]
           IN  /\ calls[i].target = top.name
               /\ \A k \in DOMAIN calls[i].invoked :
                     calls[i].invoked[k].args = IF rest # <<>> THEN rest ELSE top.args

\* exitState() went back through a guard, an exit and an enter callback,
\* each called with the args stored in the entry
C21_Witness ==
    \E i \in DOMAIN calls :
        /\ i = Len(calls) /\ calls[i].kind = "exit" /\ calls[i].pc = "returned"
        /\ returned.op = "exitState" /\ returned.args[1] = <<>>
        /\ Len(calls[i].invoked) = 3
        /\ \A k \in 1..3 : calls[i].invoked[k].args = <<"a">>

\* C22: every history entry {name, args} records the arguments with which
\* the state name was itself entered: the entry pushed when a request leaves
\* a state has the args that state was entered with.
C22_EntryRecordsEntryArguments ==
    [][\A i \in DOMAIN calls' :
          (calls'[i].kind = "enter" /\ Commits(i) /\ calls'[i].target # initialStateName')
          => previousStates'[Len(previousStates')] =
                [name |-> currentStateName, args |-> enteredWith]]_vars

\* C23: while the guard, exit callback or enter callback of a dequeued
\* request has not resolved, the pipeline is stalled: no request of a later
\* enterState or exitState call invokes a guard or a callback or changes
\* currentStateName.
C23_PendingRequestStallsPipeline ==
    \A i, j \in DOMAIN calls :
        (i < j /\ InFlight(i) /\ IsRequest(j))
        => /\ calls[j].invoked = <<>>
           /\ calls[j].outcome # "entered"

\* no call is pending and no closure is running or queued
Quiescent ==
    /\ AllSettled(calls)
    /\ \A i \in DOMAIN calls : calls[i].pc \in {"returned", "none"}
    /\ transitionQueue = <<>>
    /\ ~transitioning

\* C24: when every guard, exit callback and enter callback resolves, every
\* request of the enterState/exitState calls made, one after the other or
\* while others are pending, runs to completion, every promise returned
\* settles, and the machine comes to a state with an empty queue and
\* transitioning = false.
C24_EveryRequestCompletes ==
    /\ \A i \in 1..(MaxCalls + 1) :
          (i \in DOMAIN calls /\ calls[i].promise = "pending")
          ~> (i \in DOMAIN calls /\ calls[i].promise # "pending" /\ calls[i].pc = "returned")
    /\ []<>Quiescent

\* two requests that ran at the same time have both completed
C24_Witness ==
    /\ Quiescent
    /\ \E i, j \in DOMAIN calls :
          /\ i < j /\ IsRequest(i) /\ IsRequest(j) /\ ~calls[j].quiet
          /\ calls[i].outcome = "entered" /\ calls[j].outcome = "entered"

\* in this step request i calls its callback cb
Invokes(i, cb) ==
    /\ calls'[i].kind \in {"enter", "exit"}
    /\ calls'[i].pc = cb
    /\ i \in DOMAIN calls => calls[i].pc # cb

\* the place of a callback in the order guard, exit, enter
Rank(cb) == IF cb = "guard" THEN 1 ELSE IF cb = "exit" THEN 2 ELSE 3

\* the history as request i leaves it, seen from the step that calls enter
FinalHistory(i) ==
    LET base == IF IsNew(i) /\ calls'[i].kind = "exit"
                THEN SubSeq(previousStates, 1, Len(previousStates) - 1)
                ELSE previousStates
    IN  IF calls'[i].target = initialStateName THEN <<>>
        ELSE IF calls'[i].direction = "forward"
        THEN Append(base, [name |-> currentStateName, args |-> calls'[i].args])
        ELSE base

\* C25: within one request the steps come in the order guard, exit
\* callback, history push, currentStateName update, history clear, enter
\* callback: a callback is called only when the ones before it have
\* resolved, the guard and the exit callback are called while
\* currentStateName still names the state being left and nothing has been
\* pushed, and the enter callback is called when currentStateName is the
\* target and the history has the content the request leaves it with.
C25_OrderWithinARequest ==
    /\ [](\A i \in DOMAIN calls : \A k, l \in DOMAIN calls[i].invoked :
             (IsRequest(i) /\ k < l)
                   => /\ Rank(calls[i].invoked[k].cb) < Rank(calls[i].invoked[l].cb)
                      /\ calls[i].invoked[k].value # Pending)
    /\ [][\A i \in DOMAIN calls' :
            /\ (Invokes(i, "guard") \/ Invokes(i, "exit"))
               => /\ currentStateName' = currentStateName
                  /\ calls'[i].invoked[Len(calls'[i].invoked)].state = currentStateName
                  /\ previousStates' =
                        IF IsNew(i) /\ calls'[i].kind = "exit"
                        THEN SubSeq(previousStates, 1, Len(previousStates) - 1)
                        ELSE previousStates
            /\ Invokes(i, "enter")
               => /\ currentStateName' = calls'[i].target
                  /\ previousStates' = FinalHistory(i)
            /\ (i \in DOMAIN calls /\ calls[i].kind \in {"enter", "exit"}
                  /\ calls[i].pc = "enter" /\ calls'[i].pc # "enter")
               => /\ currentStateName' = currentStateName
                  /\ previousStates' = previousStates]_vars

\* a forward request went through its guard, the exit callback of the state
\* it left and the enter callback of its target
C25_Witness ==
    \E i \in DOMAIN calls :
        /\ calls[i].kind = "enter" /\ calls[i].pc = "returned"
        /\ calls[i].outcome = "entered"
        /\ Len(calls[i].invoked) = 3
        /\ currentStateName = calls[i].target
        /\ previousStates # <<>>
        /\ previousStates[Len(previousStates)].name = calls[i].cur0

\* the guards request i invoked
Guards(i) == SelectSeq(calls[i].invoked, LAMBDA e : e.cb = "guard")

\* C26: the only guard a request invokes, forward or backward, is the one
\* registered for the pair (currentStateName when the request runs, target):
\* it is invoked once when that pair is registered and the target is not
\* the current state, and no guard is invoked otherwise, whatever other
\* pairs (the reverse pair included) have guards.
C26_OnlyTheGuardOfThePair ==
    \A i \in DOMAIN calls :
        IsRequest(i)
        => IF <<calls[i].cur0, calls[i].target>> \in transitions
              /\ calls[i].target # calls[i].cur0
           THEN /\ Len(Guards(i)) = 1
                /\ Guards(i)[1].state = calls[i].cur0
                /\ calls[i].invoked[1].cb = "guard"
           ELSE Guards(i) = <<>>

\* a backward request was gated by the guard of (current, popped name)
\* while the reverse pair has a guard too
C26_Witness ==
    \E i \in DOMAIN calls :
        /\ calls[i].kind = "exit" /\ IsRequest(i)
        /\ Len(Guards(i)) = 1
        /\ Guards(i)[1].state = calls[i].cur0
        /\ Guards(i)[1].value # Pending
        /\ <<calls[i].cur0, calls[i].target>> \in transitions
        /\ <<calls[i].target, calls[i].cur0>> \in transitions

\* C27: initialState evaluates no guard and does not invoke the exit
\* callback of the state that was current before the call, even when a
\* guard is registered for (previous current state, name): the only
\* callback it invokes is the enter callback of the state it names, and
\* unless that state is not registered the call enters it.
C27_InitialStateBypassesGuardAndExit ==
    \A i \in DOMAIN calls :
        calls[i].kind = "initial"
        => /\ Len(calls[i].invoked) <= 1
           /\ \A k \in DOMAIN calls[i].invoked :
                 /\ calls[i].invoked[k].cb = "enter"
                 /\ calls[i].invoked[k].state = calls[i].target
           /\ calls[i].promise # "rejected" => calls[i].outcome = "entered"

\* initialState(name) was called in a state that has an exit callback and
\* with a guard registered for (that state, name), and name was entered
C27_Witness ==
    \E i \in DOMAIN calls :
        /\ i = Len(calls)
        /\ calls[i].kind = "initial" /\ calls[i].by = "host"
        /\ calls[i].cur0 \in DOMAIN states /\ states[calls[i].cur0].exit
        /\ <<calls[i].cur0, calls[i].target>> \in transitions
        /\ calls[i].pc = "returned"
        /\ calls[i].invoked # <<>>
        /\ currentStateName = calls[i].target

\* C28: transitioning is true whenever some request has been dequeued and
\* has not completed, in every interleaving of enterState/exitState calls,
\* and false whenever no request is in flight and the queue is empty.
C28_TransitioningTracksInFlight ==
    /\ (\E i \in DOMAIN calls : InFlight(i)) => transitioning
    /\ ((\A i \in DOMAIN calls : calls[i].promise # "pending" /\ ~InFlight(i))
          /\ transitionQueue = <<>>)
       => ~transitioning

\* the same, for the calls a host makes one after the other
C28_Sequential ==
    host.flows = 1 => C28_TransitioningTracksInFlight

\* in this step raiseEvent call i is made or goes on after one of its awaits
RaiseEventRuns(i) ==
    /\ calls'[i].kind = "event"
    /\ i \in DOMAIN calls => calls[i] # calls'[i]

\* C29: raiseEvent never changes currentStateName, initialStateName, the
\* history stack or the transition queue, neither in the call nor when it
\* goes on after a handler resolved, and it touches no request: a request
\* suspended at a guard, exit or enter await stays as it is.
C29_RaiseEventLeavesTheMachineAlone ==
    [][(\E i \in DOMAIN calls' : RaiseEventRuns(i))
       => /\ currentStateName' = currentStateName
          /\ initialStateName' = initialStateName
          /\ previousStates' = previousStates
          /\ transitionQueue' = transitionQueue
          /\ transitioning' = transitioning
          /\ \A j \in DOMAIN calls : InFlight(j) => calls'[j] = calls[j]]_vars

\* a raiseEvent call was made and has completed, its handlers invoked, while
\* a request made before it is still suspended at one of its awaits
C29_Witness ==
    \E j, i \in DOMAIN calls :
        /\ j < i
        /\ InFlight(j)
        /\ calls[i].kind = "event" /\ calls[i].promise = "resolved"
        /\ calls[i].outcome = "raised"
        /\ Len(calls[i].invoked) > 1

\* C30: at every suspension point, when control is back with the host or a
\* guard, exit or enter callback is awaited, the transition queue is empty:
\* each enterState/exitState call appends its request to the empty queue,
\* which then holds one request, and dequeues it in the same call before
\* its first await.
C30_QueueEmptyAtSuspension ==
    /\ transitionQueue = <<>>
    /\ \A i \in DOMAIN calls : IsRequest(i) => calls[i].pc # "queued"

\* two requests are awaiting their callbacks and the queue is empty
C30_Witness ==
    /\ transitionQueue = <<>>
    /\ \E i, j \in DOMAIN calls : i < j /\ InFlight(i) /\ InFlight(j)

\* C31: in every state, whatever the interleaving of the operations and
\* the outcomes of the guards and callbacks, currentStateName =
\* initialStateName implies that the history stack is empty.
C31_InitialStateHasNoHistory ==
    currentStateName = initialStateName => previousStates = <<>>

\* a request that started with entries on the history has entered the
\* initial state, forward or backward
C31_Witness ==
    /\ currentStateName = initialStateName
    /\ previousStates = <<>>
    /\ \E i \in DOMAIN calls :
          /\ IsRequest(i) /\ calls[i].outcome = "entered"
          /\ calls[i].target = initialStateName
          /\ Len(calls[i].hist0) > 1

\* the entry request i pushes in this step names the state that was current
\* when the request began, which is the state its guard was evaluated for
\* and whose exit callback it invoked
PushesStateLeft(i) ==
    LET entry == previousStates'[Len(previousStates')]
    IN  /\ previousStates' # <<>>
        /\ entry.name = calls'[i].cur0
        /\ \A k \in DOMAIN calls'[i].invoked :
              calls'[i].invoked[k].cb \in {"guard", "exit"}
              => calls'[i].invoked[k].state = entry.name

\* C32: for every interleaving of requests, when a forward request commits,
\* the history entry it pushes names the state whose exit callback the
\* request invoked and for which its guard was evaluated: the state that
\* was current when the request's sequence began.
C32_EntryNamesStateLeft ==
    [][\A i \in DOMAIN calls' :
          (calls'[i].kind = "enter" /\ Commits(i) /\ calls'[i].target # initialStateName)
          => PushesStateLeft(i)]_vars

\* the same, for the calls a host makes one after the other
C32_Sequential ==
    [][\A i \in DOMAIN calls' :
          (host.flows = 1 /\ calls'[i].kind = "enter" /\ Commits(i)
             /\ calls'[i].target # initialStateName)
          => PushesStateLeft(i)]_vars

\* C33: on a machine on which initialState has never succeeded,
\* currentStateName being empty and no state being registered under the
\* empty name, every enterState request, to a registered or an
\* unregistered target, ends with the "not defined" error and leaves
\* currentStateName and the history empty, every exitState call rejects,
\* and only a successful initialState call gives the machine a current
\* state.
C33_NoCurrentStateWithoutInitialState ==
    /\ [](currentStateName = NoName
           => /\ previousStates = <<>>
              /\ \A i \in DOMAIN calls :
                    /\ calls[i].kind = "enter"
                       => /\ calls[i].pc = "returned"
                          /\ calls[i].result = UndefinedStateError
                          /\ calls[i].invoked = <<>>
                    /\ calls[i].kind = "exit"
                       => /\ calls[i].promise = "rejected"
                          /\ calls[i].value = NoHistoryError)
    /\ [][(currentStateName = NoName /\ currentStateName' # NoName)
          => InitialStateSucceeds]_vars

\* enterState to a registered state has ended with the error on a machine
\* that has states and an initial state name but no current state
C33_Witness ==
    /\ currentStateName = NoName
    /\ initialStateName # NoName
    /\ previousStates = <<>>
    /\ \E i \in DOMAIN calls :
          /\ calls[i].kind = "enter" /\ calls[i].target \in DOMAIN states
          /\ calls[i].promise = "resolved"
          /\ calls[i].result = UndefinedStateError

\* in this step raiseEvent call i calls the handler of a state
InvokesHandler(i) ==
    /\ calls'[i].kind = "event"
    /\ calls'[i].pc = "handler"
    /\ i \in DOMAIN calls => calls[i].pc # "handler"

\* C34: the state handler raiseEvent invokes is the handler of the state
\* that is current at the instant the beforeAll handler has resolved (the
\* instant of the call when there is no beforeAll handler), not of the
\* state that was current when raiseEvent was called.
C34_HandlerOfStateCurrentAfterBeforeAll ==
    [][\A i \in DOMAIN calls' :
          InvokesHandler(i)
          => LET handler == calls'[i].invoked[Len(calls'[i].invoked)]
             IN  /\ handler.state = currentStateName
                 /\ calls'[i].target \in states[currentStateName].handles
                 /\ (i \in DOMAIN calls <=> Len(calls'[i].invoked) > 1)]_vars

\* an event raised in one state was handled by another: the current state
\* changed while the beforeAll handler was awaited
C34_Witness ==
    \E i \in DOMAIN calls :
        /\ calls[i].kind = "event"
        /\ Len(calls[i].invoked) > 1
        /\ calls[i].invoked[1].cb = "beforeAll"
        /\ calls[i].invoked[2].cb = "handler"
        /\ calls[i].invoked[2].state # calls[i].cur0
        /\ calls[i].invoked[2].state = currentStateName

\* the keys of initialData.states, and the first of them
Keys(entries) == {entries[k][1] : k \in DOMAIN entries}
FirstKey(entries) == IF entries = <<>> THEN NoName ELSE entries[1][1]

\* C35: new FiniteStateMachine({states, initialState: s}) never fails
\* synchronously: the machine exists with the states registered, and until
\* the host's first call, when s is a key of states currentStateName =
\* initialStateName = s and the history is empty, and when s is not a key
\* of states the initialState call has rejected, currentStateName is empty
\* and initialStateName is the first key of states.
C35_ConstructionWithInitialState ==
    (returned.op = "none" /\ host.initialState # NoName)
    => /\ DOMAIN states = Keys(host.states)
       /\ Len(calls) = 1 /\ calls[1].kind = "initial"
       /\ previousStates = <<>>
       /\ IF host.initialState \in Keys(host.states)
          THEN /\ currentStateName = host.initialState
               /\ initialStateName = host.initialState
               /\ calls[1].promise # "rejected"
          ELSE /\ currentStateName = NoName
               /\ initialStateName = FirstKey(host.states)
               /\ calls[1].promise = "rejected"

\* the machine right after it was built with an initialState that is a key
\* of states but not the first: the enter callback is still awaited
C35_Witness ==
    /\ returned.op = "none"
    /\ host.initialState \in Keys(host.states)
    /\ host.initialState # FirstKey(host.states)
    /\ currentStateName = host.initialState
    /\ initialStateName = host.initialState
    /\ calls[1].pc = "enter"

====
